---- MODULE Spec2Model ----
(***************************************************************************)
(* The multi-channel audio controller of nage-rs (src/core/audio.rs):      *)
(* Audio::load, Audio::get_player, Audio::create_audio_table and           *)
(* Audio::accept, driven by the game loop's thread, over a Playback        *)
(* Backend (playback_rs::Player) holding one active and one queued sound   *)
(* per channel.                                                            *)
(***************************************************************************)
EXTENDS Integers, Sequences, FiniteSets, TLC

(***************************************************************************)
(* Bounds of the model.                                                    *)
(***************************************************************************)
\* number of distinct seek offsets an action may carry
MaxSeek == 1
\* playback speeds an action may carry are 1..MaxSpeed
MaxSpeed == 2
\* number of accept calls recorded by the ordering specification
MaxCalls == 2

(***************************************************************************)
(* Option<T> is a set with at most one element.                            *)
(***************************************************************************)
None == {}
Some(v) == {v}
Unwrap(o) == CHOOSE v \in o : TRUE

(***************************************************************************)
(* The universe the inputs are drawn from.                                 *)
(***************************************************************************)
ChannelNames == {"music", "sfx"}
\* a channel name no configuration declares
BogusChannel == "bogus"
\* the files under the `sounds` directory
AssetFiles == {"theme"}
\* an asset name no file has
MissingAsset == "missing"
\* length of each asset, in milliseconds
AssetMillis == [f \in AssetFiles |-> 12000]
Modes == {"Queue", "Overwrite", "Passive", "Skip", "Play", "Pause"}
SeekMillis == {1500 * k : k \in 1..MaxSeek}
SpeedValues == 1..MaxSpeed

\* Configuration's `channels` section: absent, or a set of declared names
Configs == {None} \cup {Some(s) : s \in {{}, {"music"}, {"music", "sfx"}}}
\* Player::channels, the channels the user has turned on
Profiles == {{"music"}, {"sfx", BogusChannel}, {}}

(***************************************************************************)
(* A template is modelled by what evaluating it against the Text Context   *)
(* gives: a value ("ok"), an error ("err"); an optional field may also be  *)
(* absent ("none").  v is the value, or the type's default otherwise.      *)
(***************************************************************************)
Tpl(st, v) == [st |-> st, v |-> v]
StrTemplates(vals) == {Tpl("ok", v) : v \in vals} \cup {Tpl("err", "")}
OptStrTemplates(vals) == StrTemplates(vals) \cup {Tpl("none", "")}
NumTemplates(vals) == {Tpl("ok", v) : v \in vals} \cup {Tpl("err", 0)}
OptNumTemplates(vals) == NumTemplates(vals) \cup {Tpl("none", 0)}

\* SoundAction
SoundActions ==
    [channel : StrTemplates(ChannelNames \cup {BogusChannel}),
     name    : OptStrTemplates(AssetFiles \cup {MissingAsset}),
     seek    : OptNumTemplates(SeekMillis),
     mode    : StrTemplates(Modes),
     speed   : OptNumTemplates(SpeedValues)]

\* the actions whose templates all evaluate and whose names all resolve
WellFormedActions ==
    {a \in SoundActions :
        /\ a.channel.st = "ok" /\ a.channel.v \in ChannelNames
        /\ a.mode.st = "ok"
        /\ a.name.st # "err" /\ a.name.v # MissingAsset
        /\ a.seek.st # "err"
        /\ a.speed.st # "err"}

\* the well-formed actions carrying, when they carry one, the smallest seek
\* offset and the largest speed
OrderActions ==
    {a \in WellFormedActions :
        /\ a.seek.st = "ok" => \A ms \in SeekMillis : a.seek.v <= ms
        /\ a.speed.st = "ok" => a.speed.v = MaxSpeed}

NoAction ==
    [channel |-> Tpl("err", ""), name |-> Tpl("none", ""), seek |-> Tpl("none", 0),
     mode |-> Tpl("err", ""), speed |-> Tpl("none", 0)]

(***************************************************************************)
(* std::time::Duration                                                     *)
(***************************************************************************)
from_millis(ms) == [secs |-> ms \div 1000, nanos |-> (ms % 1000) * 1000000]
as_millis(d) == d.secs * 1000 + d.nanos \div 1000000
ZeroDuration == from_millis(0)

(***************************************************************************)
(* Result<()> of accept                                                    *)
(***************************************************************************)
Ok == [kind |-> "Ok", name |-> ""]
TemplateEval(field) == [kind |-> "TemplateEval", name |-> field]
UnknownChannel(channel) == [kind |-> "UnknownChannel", name |-> channel]
UnknownAsset(sound) == [kind |-> "UnknownAsset", name |-> sound]

(***************************************************************************)
(* Playback Backend: one playback_rs::Player per channel.                  *)
(***************************************************************************)
\* the state of a freshly constructed player
NewPlayer ==
    [current |-> None, position |-> ZeroDuration, next |-> None,
     playing |-> TRUE, speed |-> 1]

\* a call received by the Backend
Call(verb, ch, asset, seek, on, speed) ==
    [verb |-> verb, ch |-> ch, asset |-> asset, seek |-> seek, on |-> on, speed |-> speed]
SeekCall(ch, d) == Call("seek", ch, None, Some(d), None, None)
SkipCall(ch) == Call("skip", ch, None, None, None, None)
SetPlayingCall(ch, on) == Call("set_playing", ch, None, None, Some(on), None)
PlaySongNowCall(ch, sfx, seek) == Call("play_song_now", ch, Some(sfx), seek, None, None)
PlaySongNextCall(ch, sfx, seek) == Call("play_song_next", ch, Some(sfx), seek, None, None)
SetPlaybackSpeedCall(ch, s) == Call("set_playback_speed", ch, None, None, None, Some(s))

StartAt(seek) == IF seek = None THEN ZeroDuration ELSE Unwrap(seek)

Backend_seek(p, d) ==
    IF p.current = None THEN p ELSE [p EXCEPT !.position = d]
Backend_skip(p) ==
    IF p.next = None
    THEN [p EXCEPT !.current = None, !.position = ZeroDuration]
    ELSE [p EXCEPT !.current = Some(Unwrap(p.next).asset),
                   !.position = Unwrap(p.next).start,
                   !.next = None]
Backend_set_playing(p, on) == [p EXCEPT !.playing = on]
Backend_play_song_now(p, sfx, seek) ==
    [p EXCEPT !.current = Some(sfx), !.position = StartAt(seek)]
Backend_play_song_next(p, sfx, seek) ==
    [p EXCEPT !.next = Some([asset |-> sfx, start |-> StartAt(seek)])]
Backend_set_playback_speed(p, s) == [p EXCEPT !.speed = s]

\* accessors
is_playing(p) == p.playing
has_current_song(p) == p.current # None
has_next_song(p) == p.next # None
get_playback_position(p) ==
    IF p.current = None THEN None
    ELSE Some(<<p.position, from_millis(AssetMillis[Unwrap(p.current)])>>)

\* the effect of one call on the player it is addressed to
ApplyCall(p, c) ==
    CASE c.verb = "seek" -> Backend_seek(p, Unwrap(c.seek))
      [] c.verb = "skip" -> Backend_skip(p)
      [] c.verb = "set_playing" -> Backend_set_playing(p, Unwrap(c.on))
      [] c.verb = "play_song_now" -> Backend_play_song_now(p, Unwrap(c.asset), c.seek)
      [] c.verb = "play_song_next" -> Backend_play_song_next(p, Unwrap(c.asset), c.seek)
      [] c.verb = "set_playback_speed" -> Backend_set_playback_speed(p, Unwrap(c.speed))

\* the players after the Backend has received `calls`, in order
RECURSIVE ApplyCalls(_, _)
ApplyCalls(ps, calls) ==
    IF calls = <<>> THEN ps
    ELSE LET c == Head(calls)
         IN  ApplyCalls(IF c.ch \in DOMAIN ps
                        THEN [ps EXCEPT ![c.ch] = ApplyCall(ps[c.ch], c)]
                        ELSE ps,
                        Tail(calls))

(***************************************************************************)
(* Audio::load                                                             *)
(***************************************************************************)
\* Option<Result<AudioPlayers>>: None without a channels section, an error
\* if any AudioPlayer::new fails, else one new player per declared channel
load_players(channels, failing) ==
    IF channels = None THEN None
    ELSE IF Unwrap(channels) \cap failing # {}
         THEN Some([ok |-> FALSE, players |-> <<>>])
         ELSE Some([ok |-> TRUE, players |-> [c \in Unwrap(channels) |-> NewPlayer]])

\* Loader::map_content: the content of a directory mapped file by file, or
\* the error of a file the mapping rejects
map_content(files, rejected) ==
    IF files \cap rejected # {}
    THEN [ok |-> FALSE, sounds |-> {}]
    ELSE [ok |-> TRUE, sounds |-> files]

\* Result<Sounds>: every file of `sounds` decoded by Song::from_file
load_sounds(files, corrupt) == map_content(files, corrupt)

Absent == [outcome |-> "absent", players |-> <<>>, sounds |-> {}]
LoadError == [outcome |-> "error", players |-> <<>>, sounds |-> {}]
Present(players, sounds) == [outcome |-> "present", players |-> players, sounds |-> sounds]

\* load with a failed player creation propagated instead of silenced
load_propagating(channels, failing, files, corrupt) ==
    LET result == load_players(channels, failing)
    IN  IF result = None THEN Absent
        ELSE IF ~Unwrap(result).ok THEN LoadError
        ELSE LET sounds == load_sounds(files, corrupt)
             IN  IF sounds.ok
                 THEN Present(Unwrap(result).players, sounds.sounds)
                 ELSE LoadError

\* Result<Option<Audio>>
load(channels, failing, files, corrupt) ==
    LET result == load_players(channels, failing)
    IN  IF result = None THEN Absent
        ELSE IF ~Unwrap(result).ok THEN Absent
        ELSE LET sounds == load_sounds(files, corrupt)
             IN  IF sounds.ok
                 THEN Present(Unwrap(result).players, sounds.sounds)
                 ELSE LoadError

(***************************************************************************)
(* Audio::get_player                                                       *)
(***************************************************************************)
get_player(ps, channel) ==
    IF channel \in DOMAIN ps
    THEN [ok |-> TRUE, err |-> Ok]
    ELSE [ok |-> FALSE, err |-> UnknownChannel(channel)]

(***************************************************************************)
(* Audio::create_audio_table                                               *)
(***************************************************************************)
\* channel_table with zero standing in for a position the Backend lacks
channel_table_zeroed(p) ==
    LET base == [is_playing |-> is_playing(p),
                 has_sound |-> has_current_song(p),
                 has_sound_queued |-> has_next_song(p)]
        pos == get_playback_position(p)
    IN  IF pos # None
        THEN base @@ ("position" :> as_millis(Unwrap(pos)[1]))
                  @@ ("sound_duration" :> as_millis(Unwrap(pos)[2]))
        ELSE base @@ ("position" :> 0) @@ ("sound_duration" :> 0)

channel_table(p) ==
    LET base == [is_playing |-> is_playing(p),
                 has_sound |-> has_current_song(p),
                 has_sound_queued |-> has_next_song(p)]
        pos == get_playback_position(p)
    IN  IF pos # None
        THEN base @@ ("position" :> as_millis(Unwrap(pos)[1]))
                  @@ ("sound_duration" :> as_millis(Unwrap(pos)[2]))
        ELSE base

create_audio_table(ps) == [channel \in DOMAIN ps |-> channel_table(ps[channel])]

(***************************************************************************)
(* Audio::accept                                                           *)
(***************************************************************************)
\* the Backend calls of accept_general_actions, in order
accept_general_actions(ch, seek, mode) ==
    (IF seek # None THEN <<SeekCall(ch, Unwrap(seek))>> ELSE <<>>)
    \o (CASE mode = "Skip" -> <<SkipCall(ch)>>
          [] mode = "Play" -> <<SetPlayingCall(ch, TRUE)>>
          [] mode = "Pause" -> <<SetPlayingCall(ch, FALSE)>>
          [] OTHER -> <<>>)

\* accept_mode with the sound-less verbs not filtered
accept_mode_unfiltered(ch, p, sfx, seek, mode) ==
    CASE mode = "Queue" -> <<PlaySongNextCall(ch, sfx, seek)>>
      [] mode = "Overwrite" -> <<PlaySongNowCall(ch, sfx, seek)>>
      [] mode = "Passive" ->
            IF ~has_current_song(p) THEN <<PlaySongNowCall(ch, sfx, seek)>> ELSE <<>>
      [] mode = "Skip" -> <<SkipCall(ch)>>
      [] mode = "Play" -> <<SetPlayingCall(ch, TRUE)>>
      [] mode = "Pause" -> <<SetPlayingCall(ch, FALSE)>>

\* accept_mode with Queue and Overwrite exchanged
accept_mode_swapped(ch, p, sfx, seek, mode) ==
    CASE mode = "Queue" -> <<PlaySongNowCall(ch, sfx, seek)>>
      [] mode = "Overwrite" -> <<PlaySongNextCall(ch, sfx, seek)>>
      [] mode = "Passive" ->
            IF ~has_current_song(p) THEN <<PlaySongNowCall(ch, sfx, seek)>> ELSE <<>>
      [] OTHER -> <<>>

\* accept_mode with Passive not looking at the active slot
accept_mode_eager(ch, p, sfx, seek, mode) ==
    CASE mode = "Queue" -> <<PlaySongNextCall(ch, sfx, seek)>>
      [] mode = "Overwrite" -> <<PlaySongNowCall(ch, sfx, seek)>>
      [] mode = "Passive" -> <<PlaySongNowCall(ch, sfx, seek)>>
      [] OTHER -> <<>>

\* the Backend calls of accept_mode, in order
accept_mode(ch, p, sfx, seek, mode) ==
    CASE mode = "Queue" -> <<PlaySongNextCall(ch, sfx, seek)>>
      [] mode = "Overwrite" -> <<PlaySongNowCall(ch, sfx, seek)>>
      [] mode = "Passive" ->
            IF ~has_current_song(p) THEN <<PlaySongNowCall(ch, sfx, seek)>> ELSE <<>>
      [] OTHER -> <<>>

Outcome(result, calls) == [result |-> result, calls |-> calls]

\* accept_speed with the speed set before the calls of the mode dispatch
accept_speed_first(ch, action, calls) ==
    IF action.speed.st = "none" THEN Outcome(Ok, calls)
    ELSE IF action.speed.st = "err" THEN Outcome(TemplateEval("speed"), calls)
    ELSE Outcome(Ok, <<SetPlaybackSpeedCall(ch, action.speed.v)>> \o calls)

\* accept_speed with the speed set once more than asked
accept_speed_twice(ch, action, calls) ==
    IF action.speed.st = "none" THEN Outcome(Ok, calls)
    ELSE IF action.speed.st = "err" THEN Outcome(TemplateEval("speed"), calls)
    ELSE Outcome(Ok, calls \o <<SetPlaybackSpeedCall(ch, action.speed.v),
                                SetPlaybackSpeedCall(ch, action.speed.v)>>)

\* the speed step that ends accept, after `calls` have been issued
accept_speed(ch, action, calls) ==
    IF action.speed.st = "none" THEN Outcome(Ok, calls)
    ELSE IF action.speed.st = "err" THEN Outcome(TemplateEval("speed"), calls)
    ELSE Outcome(Ok, calls \o <<SetPlaybackSpeedCall(ch, action.speed.v)>>)

\* accept_dispatch with the seek applied before the name is resolved
accept_dispatch_seeking(ps, sounds, ch, action, seek, mode) ==
    LET sought == IF seek # None THEN <<SeekCall(ch, Unwrap(seek))>> ELSE <<>>
    IN  IF action.name.st = "none"
        THEN accept_speed(ch, action, accept_general_actions(ch, seek, mode))
        ELSE IF action.name.st = "err" THEN Outcome(TemplateEval("name"), sought)
        ELSE IF action.name.v \notin sounds
             THEN Outcome(UnknownAsset(action.name.v), sought)
        ELSE accept_speed(ch, action,
                          accept_mode(ch, ps[ch], action.name.v, seek, mode))

\* the name dispatch of accept, with seek and mode evaluated
accept_dispatch(ps, sounds, ch, action, seek, mode) ==
    IF action.name.st = "none"
    THEN accept_speed(ch, action, accept_general_actions(ch, seek, mode))
    ELSE IF action.name.st = "err" THEN Outcome(TemplateEval("name"), <<>>)
    ELSE IF action.name.v \notin sounds THEN Outcome(UnknownAsset(action.name.v), <<>>)
    ELSE accept_speed(ch, action, accept_mode(ch, ps[ch], action.name.v, seek, mode))

\* accept with the mute check after the seek and mode are evaluated
accept_mute_late(ps, sounds, enabled, action) ==
    IF action.channel.st = "err" THEN Outcome(TemplateEval("channel"), <<>>)
    ELSE LET channel == action.channel.v
         IN  IF ~get_player(ps, channel).ok
             THEN Outcome(get_player(ps, channel).err, <<>>)
             ELSE IF action.seek.st = "err" THEN Outcome(TemplateEval("seek"), <<>>)
             ELSE IF action.mode.st = "err" THEN Outcome(TemplateEval("mode"), <<>>)
             ELSE IF channel \notin enabled THEN Outcome(Ok, <<>>)
             ELSE accept_dispatch(ps, sounds, channel, action,
                                  IF action.seek.st = "none" THEN None
                                  ELSE Some(from_millis(action.seek.v)),
                                  action.mode.v)

\* accept with the mute check before the channel lookup
accept_mute_first(ps, sounds, enabled, action) ==
    IF action.channel.st = "err" THEN Outcome(TemplateEval("channel"), <<>>)
    ELSE LET channel == action.channel.v
         IN  IF channel \notin enabled THEN Outcome(Ok, <<>>)
             ELSE IF ~get_player(ps, channel).ok
             THEN Outcome(get_player(ps, channel).err, <<>>)
             ELSE IF action.seek.st = "err" THEN Outcome(TemplateEval("seek"), <<>>)
             ELSE IF action.mode.st = "err" THEN Outcome(TemplateEval("mode"), <<>>)
             ELSE accept_dispatch(ps, sounds, channel, action,
                                  IF action.seek.st = "none" THEN None
                                  ELSE Some(from_millis(action.seek.v)),
                                  action.mode.v)

\* the result of accept and the Backend calls it issued, in order
accept(ps, sounds, enabled, action) ==
    IF action.channel.st = "err" THEN Outcome(TemplateEval("channel"), <<>>)
    ELSE LET channel == action.channel.v
         IN  IF ~get_player(ps, channel).ok
             THEN Outcome(get_player(ps, channel).err, <<>>)
             ELSE IF channel \notin enabled THEN Outcome(Ok, <<>>)
             ELSE IF action.seek.st = "err" THEN Outcome(TemplateEval("seek"), <<>>)
             ELSE IF action.mode.st = "err" THEN Outcome(TemplateEval("mode"), <<>>)
             ELSE accept_dispatch(ps, sounds, channel, action,
                                  IF action.seek.st = "none" THEN None
                                  ELSE Some(from_millis(action.seek.v)),
                                  action.mode.v)

(***************************************************************************)
(* State                                                                   *)
(***************************************************************************)
VARIABLES
    config_channels,   \* Manifest settings.channels
    failing,           \* the channels whose AudioPlayer::new fails
    corrupt,           \* the asset files the decoder rejects
    enabled_channels,  \* Player::channels
    audio,             \* what Audio::load returned, "unloaded" before it
    players,           \* the Backend's state, per channel of Audio::players
    pc,                \* the game loop: "start", "idle", "returned", "halted"
    last,              \* the call the game loop made last, until it returns
    tracing,           \* whether history is recorded
    ncalls,            \* accept calls recorded in history
    history            \* every Backend call so far, tagged with its accept call

vars == <<config_channels, failing, corrupt, enabled_channels, audio, players,
          pc, last, tracing, ncalls, history>>

env == <<config_channels, failing, corrupt, enabled_channels, tracing>>

NoCall ==
    [op |-> "none", action |-> NoAction, result |-> Ok, calls |-> <<>>,
     before |-> <<>>, after |-> <<>>, table |-> <<>>]

Unloaded == [outcome |-> "unloaded", players |-> <<>>, sounds |-> {}]

InitEnv ==
    /\ config_channels \in Configs
    /\ failing \in SUBSET ChannelNames
    /\ failing \subseteq (IF config_channels = None THEN {} ELSE Unwrap(config_channels))
    /\ corrupt \in SUBSET AssetFiles
    /\ enabled_channels \in Profiles

InitRest ==
    /\ audio = Unloaded
    /\ players = <<>>
    /\ pc = "start"
    /\ last = NoCall
    /\ ncalls = 0
    /\ history = <<>>

Init == InitEnv /\ InitRest /\ tracing = FALSE

\* main calls Audio::load once, at startup
Load ==
    /\ pc = "start"
    /\ audio' = load(config_channels, failing, AssetFiles, corrupt)
    /\ players' = audio'.players
    /\ pc' = IF audio'.outcome = "present" THEN "idle" ELSE "halted"
    /\ last' = [NoCall EXCEPT !.op = "load"]
    /\ UNCHANGED <<env, ncalls, history>>

Tag(n, calls) == [i \in 1..Len(calls) |-> [call_no |-> n, call |-> calls[i]]]

\* the game loop calls Audio::accept
Accept(action) ==
    /\ pc = "idle"
    /\ tracing => ncalls < MaxCalls
    /\ LET out == accept(players, audio.sounds, enabled_channels, action)
       IN  /\ players' = ApplyCalls(players, out.calls)
           /\ last' = [op |-> "accept", action |-> action, result |-> out.result,
                       calls |-> out.calls, before |-> players, after |-> players',
                       table |-> <<>>]
           /\ ncalls' = IF tracing THEN ncalls + 1 ELSE ncalls
           /\ history' = IF tracing THEN history \o Tag(ncalls + 1, out.calls)
                         ELSE history
    /\ pc' = "returned"
    /\ UNCHANGED <<env, audio>>

\* the Script Host asks for the introspection table
Snapshot ==
    /\ pc = "idle"
    /\ last' = [NoCall EXCEPT !.op = "snapshot", !.before = players, !.after = players,
                              !.table = create_audio_table(players)]
    /\ pc' = "returned"
    /\ UNCHANGED <<env, audio, players, ncalls, history>>

\* the call returns to the game loop
Return ==
    /\ pc = "returned"
    /\ pc' = "idle"
    /\ last' = NoCall
    /\ UNCHANGED <<env, audio, players, ncalls, history>>

\* the Backend's mixer thread: the active sound of a channel ends
SongEnds(ch) ==
    /\ pc \in {"idle", "returned"}
    /\ ch \in DOMAIN players
    /\ has_current_song(players[ch])
    /\ is_playing(players[ch])
    /\ players' = [players EXCEPT ![ch] = Backend_skip(@)]
    /\ UNCHANGED <<env, audio, pc, last, ncalls, history>>

Next ==
    \/ Load
    \/ \E action \in SoundActions : Accept(action)
    \/ Snapshot
    \/ Return
    \/ \E ch \in ChannelNames : SongEnds(ch)

Spec == Init /\ [][Next]_vars

(***************************************************************************)
(* The ordering specification: both channels declared and enabled,         *)
(* well-formed actions, and the history of Backend calls recorded over     *)
(* MaxCalls accept calls.                                                  *)
(***************************************************************************)
InitOrder ==
    /\ config_channels = Some(ChannelNames)
    /\ failing = {}
    /\ corrupt = {}
    /\ enabled_channels = ChannelNames
    /\ InitRest
    /\ tracing = TRUE

NextOrder ==
    \/ Load
    \/ \E action \in OrderActions : Accept(action)
    \/ Snapshot
    \/ Return
    \/ \E ch \in ChannelNames : SongEnds(ch)

SpecOrder == InitOrder /\ [][NextOrder]_vars

TypeOK ==
    /\ pc \in {"start", "idle", "returned", "halted"}
    /\ audio.outcome \in {"unloaded", "absent", "error", "present"}
    /\ last.op \in {"none", "load", "accept", "snapshot"}

(***************************************************************************)
(* What the claims speak of: the accept call that has just returned.       *)
(***************************************************************************)
Accepted == pc = "returned" /\ last.op = "accept"
Resolved == last.action.channel.st = "ok"
Channel == last.action.channel.v
Known == Resolved /\ Channel \in DOMAIN last.before
Enabled == Channel \in enabled_channels
Verbs == {last.calls[i].verb : i \in 1..Len(last.calls)}
NameAbsent == last.action.name.st = "none"
NameKnown == last.action.name.st = "ok" /\ last.action.name.v \in audio.sounds
ModeIs(modes) == last.action.mode.st = "ok" /\ last.action.mode.v \in modes
Untouched == last.calls = <<>> /\ last.after = last.before

\* a Backend call as the claims write it, with the seek in milliseconds
Shape(verb, ch, asset, seek_ms, on, speed) ==
    [verb |-> verb, ch |-> ch, asset |-> asset, seek_ms |-> seek_ms,
     on |-> on, speed |-> speed]
ShapeOf(c) ==
    Shape(c.verb, c.ch, c.asset, {as_millis(d) : d \in c.seek}, c.on, c.speed)
Shapes == [i \in 1..Len(last.calls) |-> ShapeOf(last.calls[i])]
SeekMs == IF last.action.seek.st = "ok" THEN Some(last.action.seek.v) ELSE None
SpeedShape ==
    IF last.action.speed.st = "ok"
    THEN <<Shape("set_playback_speed", Channel, None, None, None, Some(last.action.speed.v))>>
    ELSE <<>>

\* C1 (mute respect): an accept whose channel resolves to a channel of the
\* Channel Set that the profile does not enable returns success, and the
\* Backend receives no call and no channel changes, whatever the name, seek,
\* mode and speed templates are or evaluate to.
C1_MuteRespect ==
    (Accepted /\ Known /\ ~Enabled) => (last.result = Ok /\ Untouched)

\* a muted accept whose seek, mode, name and speed would all have failed
C1_Witness ==
    /\ Accepted /\ Known /\ ~Enabled
    /\ last.action.seek.st = "err" /\ last.action.mode.st = "err"
    /\ last.action.name.st = "err" /\ last.action.speed.st = "err"
    /\ last.result = Ok

\* C2 (unknown channel): an accept whose channel resolves to a name that is
\* no key of the Channel Set returns UnknownChannel carrying that name, and
\* issues no call, whether or not the profile enables the name.
C2_UnknownChannel ==
    (Accepted /\ Resolved /\ ~Known) =>
        /\ last.result = [kind |-> "UnknownChannel", name |-> Channel]
        /\ Untouched

\* an unknown channel the profile does not enable, reported all the same
C2_Witness ==
    /\ Accepted /\ Resolved /\ ~Known /\ ~Enabled
    /\ last.result.kind = "UnknownChannel"
    /\ DOMAIN last.before # {}

\* the error accept raises before any Backend call, from its inputs
EarlyError ==
    \/ ~Resolved
    \/ ~Known
    \/ /\ Enabled
       /\ \/ last.action.seek.st = "err"
          \/ last.action.mode.st = "err"
          \/ last.action.name.st = "err"
          \/ last.action.name.st = "ok" /\ last.action.name.v \notin audio.sounds

\* C3 (errors leave the transport unchanged): an accept that returns an error
\* from channel evaluation, channel lookup, seek or mode evaluation, name
\* evaluation or asset lookup has issued no Backend call and changed no
\* channel; an error preceded by a Backend call comes from the speed template.
C3_ErrorsLeaveTransport ==
    Accepted =>
        /\ EarlyError => (last.result.kind # "Ok" /\ Untouched)
        /\ (last.result.kind # "Ok" /\ last.result # TemplateEval("speed")) => Untouched
        /\ (last.result.kind # "Ok" /\ last.calls # <<>>) =>
               (last.action.speed.st = "err" /\ last.result = TemplateEval("speed"))

\* an unknown asset on an enabled channel, with seek and speed both set
C3_Witness ==
    /\ Accepted /\ Known /\ Enabled
    /\ last.result = [kind |-> "UnknownAsset", name |-> MissingAsset]
    /\ last.action.seek.st = "ok" /\ last.action.speed.st = "ok"
    /\ has_current_song(last.before[Channel])

\* C4 (name-mode coupling): without a name the Backend receives neither
\* play_song_next nor play_song_now; with a name and mode Skip, Play or Pause
\* it receives neither skip nor set_playing.
C4_NameModeCoupling ==
    Accepted =>
        /\ NameAbsent => Verbs \cap {"play_song_next", "play_song_now"} = {}
        /\ (~NameAbsent /\ ModeIs({"Skip", "Play", "Pause"})) =>
               Verbs \cap {"skip", "set_playing"} = {}

\* a named Skip accepted on an enabled channel that has something to skip
C4_Witness ==
    /\ Accepted /\ Known /\ Enabled /\ NameKnown /\ ModeIs({"Skip"})
    /\ last.result = Ok
    /\ has_current_song(last.before[Channel])
    /\ has_next_song(last.before[Channel])

\* the calls the dispatch table gives for the action and the active slot
TableCalls ==
    LET m == last.action.mode.v
        now == <<Shape("play_song_now", Channel, Some(last.action.name.v), SeekMs, None, None)>>
        next == <<Shape("play_song_next", Channel, Some(last.action.name.v), SeekMs, None, None)>>
    IN  (IF NameAbsent
         THEN (IF SeekMs # None
               THEN <<Shape("seek", Channel, None, SeekMs, None, None)>> ELSE <<>>)
              \o (IF m = "Skip" THEN <<Shape("skip", Channel, None, None, None, None)>>
                  ELSE IF m = "Play"
                  THEN <<Shape("set_playing", Channel, None, None, Some(TRUE), None)>>
                  ELSE IF m = "Pause"
                  THEN <<Shape("set_playing", Channel, None, None, Some(FALSE), None)>>
                  ELSE <<>>)
         ELSE (IF m = "Queue" THEN next
               ELSE IF m = "Overwrite" THEN now
               ELSE IF m = "Passive" /\ last.before[Channel].current = None THEN now
               ELSE <<>>))
        \o SpeedShape

\* C5 (dispatch table): a successful accept on an enabled known channel
\* issues exactly the calls of the dispatch table, each on the resolved
\* channel; no other channel changes, and Queue keeps the active slot.
C5_DispatchTable ==
    (Accepted /\ Known /\ Enabled /\ last.result = Ok) =>
        /\ Shapes = TableCalls
        /\ \A ch \in DOMAIN last.before \ {Channel} : last.after[ch] = last.before[ch]
        /\ (NameKnown /\ ModeIs({"Queue"})) =>
               /\ last.after[Channel].current = last.before[Channel].current
               /\ last.after[Channel].position = last.before[Channel].position

\* a named Queue with seek and speed on a channel whose active slot is full,
\* beside another channel
C5_Witness ==
    /\ Accepted /\ Known /\ Enabled /\ last.result = Ok
    /\ NameKnown /\ ModeIs({"Queue"})
    /\ last.action.seek.st = "ok" /\ last.action.speed.st = "ok"
    /\ has_current_song(last.before[Channel])
    /\ Len(last.calls) = 2
    /\ DOMAIN last.before = ChannelNames

\* C6 (Passive idempotence): a Passive action with a known name and no speed,
\* applied to an enabled channel whose active slot is not empty, succeeds with
\* no Backend call, and every channel is as it was before the application.
C6_PassiveIdempotence ==
    (/\ Accepted /\ Known /\ Enabled
     /\ NameKnown /\ ModeIs({"Passive"})
     /\ last.action.seek.st # "err" /\ last.action.speed.st = "none"
     /\ has_current_song(last.before[Channel])) =>
        (last.result = Ok /\ Untouched)

\* a Passive action with a seek applied to a channel playing from elsewhere
C6_Witness ==
    /\ Accepted /\ Known /\ Enabled
    /\ NameKnown /\ ModeIs({"Passive"})
    /\ last.action.seek.st = "ok" /\ last.action.speed.st = "none"
    /\ has_current_song(last.before[Channel])
    /\ as_millis(last.before[Channel].position) # last.action.seek.v
    /\ last.calls = <<>>

\* an accept on an enabled known channel of an action with only speed set
OnlySpeed ==
    /\ Accepted /\ Known /\ Enabled
    /\ NameAbsent /\ last.action.seek.st = "none"
    /\ last.action.mode.st = "ok" /\ last.action.speed.st = "ok"

\* C7 as claimed (speed idempotence, any mode): an action with only speed
\* set yields exactly one set_playback_speed call and no other call.
C7_AnyMode ==
    OnlySpeed => Shapes = SpeedShape

\* C7 as amended: an action with only speed set and mode Queue, Overwrite or
\* Passive yields exactly one set_playback_speed call and no other call; with
\* mode Skip, Play or Pause the mode's verb is issued first, then the speed.
C7_SpeedOnly ==
    OnlySpeed =>
        /\ ModeIs({"Queue", "Overwrite", "Passive"}) =>
               /\ Shapes = SpeedShape
               /\ \A ch \in DOMAIN last.before :
                      last.after[ch] = [last.before[ch] EXCEPT !.speed =
                          IF ch = Channel THEN last.action.speed.v ELSE @]
        /\ ModeIs({"Skip", "Play", "Pause"}) =>
               /\ Len(Shapes) = 2
               /\ Shapes[1].verb \in {"skip", "set_playing"}
               /\ <<Shapes[2]>> = SpeedShape

\* an action with only speed set and mode Queue that changes the speed
C7_Witness ==
    /\ OnlySpeed /\ ModeIs({"Queue"})
    /\ last.result = Ok
    /\ last.before[Channel].speed # last.action.speed.v
    /\ has_current_song(last.before[Channel])

PositionKeys == {"position", "sound_duration"}

\* C8 (snapshot faithfulness): the snapshot has one entry per channel of the
\* Channel Set; its is_playing, has_sound and has_sound_queued are the
\* Backend's is_playing, has_current_song and has_next_song at the capture;
\* position and sound_duration are both present when the Backend reports a
\* position and both absent when it does not; and no channel changes.
C8_SnapshotFaithful ==
    (pc = "returned" /\ last.op = "snapshot") =>
        /\ DOMAIN last.table = DOMAIN last.before
        /\ DOMAIN last.table = Unwrap(config_channels)
        /\ last.after = last.before
        /\ \A ch \in DOMAIN last.table :
              LET t == last.table[ch]
                  p == last.before[ch]
              IN  /\ t.is_playing = p.playing
                  /\ t.has_sound = (p.current # None)
                  /\ t.has_sound_queued = (p.next # None)
                  /\ IF p.current # None
                     THEN /\ PositionKeys \subseteq DOMAIN t
                          /\ t.position = as_millis(p.position)
                          /\ t.sound_duration = AssetMillis[Unwrap(p.current)]
                     ELSE PositionKeys \cap DOMAIN t = {}

\* a snapshot of a paused channel with a sound sought into, beside an idle one
C8_Witness ==
    /\ pc = "returned" /\ last.op = "snapshot"
    /\ \E ch \in DOMAIN last.table :
          /\ ~last.table[ch].is_playing
          /\ last.table[ch].has_sound
          /\ PositionKeys \subseteq DOMAIN last.table[ch]
          /\ last.table[ch].position > 0
    /\ \E ch \in DOMAIN last.table :
          /\ ~last.table[ch].has_sound
          /\ PositionKeys \cap DOMAIN last.table[ch] = {}

Declared == IF config_channels = None THEN {} ELSE Unwrap(config_channels)
Decodable == AssetFiles \cap corrupt = {}

\* C9 (load outcome): without a channels section load gives no audio;
\* otherwise, if a declared channel's player fails, no audio and no error;
\* otherwise an error if an asset fails to decode, else an Audio whose
\* channels are the declared names.  Only a decode failure gives an error.
C9_LoadOutcome ==
    (audio.outcome # "unloaded") =>
        /\ audio.outcome =
              (IF config_channels = None THEN "absent"
               ELSE IF Declared \cap failing # {} THEN "absent"
               ELSE IF ~Decodable THEN "error"
               ELSE "present")
        /\ audio.outcome = "present" =>
              (DOMAIN audio.players = Declared /\ DOMAIN players = Declared)
        /\ audio.outcome = "error" => ~Decodable

\* a load with a failing player and an undecodable asset: no audio, no error
C9_Witness ==
    /\ last.op = "load"
    /\ Declared \cap failing # {}
    /\ ~Decodable
    /\ audio.outcome = "absent"

HVerb(i) == history[i].call.verb
TransportVerbs == {"skip", "set_playing", "play_song_now", "play_song_next"}

\* C10 (ordering): among the Backend calls of one accept, a seek comes before
\* the skip or set_playing of the mode and set_playback_speed comes after the
\* mode's transport call; the calls of an earlier accept all come before the
\* calls of a later one.
C10_Ordering ==
    \A i, j \in 1..Len(history) :
        /\ i < j => history[i].call_no <= history[j].call_no
        /\ history[i].call_no = history[j].call_no =>
              /\ (HVerb(i) = "seek" /\ HVerb(j) \in {"skip", "set_playing"}) => i < j
              /\ (HVerb(i) \in TransportVerbs /\ HVerb(j) = "set_playback_speed") => i < j

\* a seek, a skip and a speed change of one accept, then a call of the next
C10_Witness ==
    /\ Len(history) >= 4
    /\ HVerb(1) = "seek" /\ HVerb(2) = "skip" /\ HVerb(3) = "set_playback_speed"
    /\ history[3].call_no = 1
    /\ history[4].call_no = 2
    /\ HVerb(4) = "play_song_now"
====
